---- MODULE Spec2Model ----
(***************************************************************************)
(* Model of rtlobs/collect.py: the three integration routines              *)
(* run_total_power_int, run_spectrum_int and run_fswitch_int, each as a    *)
(* sequential program stepping through the SDR calls it makes.             *)
(*                                                                         *)
(* Reals are modelled exactly: t_int is a pair <<num, den>> of naturals    *)
(* (t_int = num / den seconds), rate and fswitch are whole Hz, and         *)
(* int(x) is the floor of the exact quotient.  For the values drawn below  *)
(* (fswitch in {1, 2, 5}, t_int in {1/10, k/2, 4}) IEEE doubles give the   *)
(* same floors.                                                            *)
(*                                                                         *)
(* A periodogram (one welch() result, nbins values) is modelled by one     *)
(* positive integer, the power in a representative bin; a running sum is   *)
(* the sum of those integers; an average is the pair sum / divisor.        *)
(***************************************************************************)
EXTENDS Integers, Sequences, FiniteSets, TLC

\* ---- bounds of the model ------------------------------------------------
MaxNumSamp == 3
MaxNBins == 1
MaxRate == 4
MaxFswitch == 2
MaxTIntHalves == 5
MaxPower == 2
MaxRate5 == 21
MaxLoops5 == 2

VARIABLES
    fn,          \* which routine is running
    num_samp, nbins, rate, t_int, fswitch,   \* its arguments
    sky,         \* the block powers the source can deliver in this run
    pc,          \* position in the routine
    device,      \* "none" | "open" | "closed"
    log,         \* calls made on the sdr object, in order
    err,         \* exception in flight / raised to the caller
    N, N_dwell, num_loops, num_dwells,       \* locals
    i, j, tick,  \* dwell index, block index in the dwell, ON/OFF flag
    it,          \* next value of range(num_loops) in run_spectrum_int
    calls,       \* wrapper.calls of helpers.limit_calls
    cnt,
    p_tot, p_xx_tot, p_xx_on, p_xx_off,      \* running sums
    n_tot, n_on, n_off,                      \* periodograms added to each sum
    p_avg, p_avg_on, p_avg_off               \* finalized averages

vars == <<fn, num_samp, nbins, rate, t_int, fswitch, sky, pc, device, log, err,
          N, N_dwell, num_loops, num_dwells, i, j, tick, it, calls, cnt,
          p_tot, p_xx_tot, p_xx_on, p_xx_off, n_tot, n_on, n_off,
          p_avg, p_avg_on, p_avg_off>>

args == <<fn, num_samp, nbins, rate, t_int, fswitch, sky>>
locals == <<N, N_dwell, num_loops, num_dwells>>
sums == <<p_tot, p_xx_tot, p_xx_on, p_xx_off, n_tot, n_on, n_off>>
avgs == <<p_avg, p_avg_on, p_avg_off>>

\* ---- values -------------------------------------------------------------
Routines == {"run_total_power_int", "run_spectrum_int", "run_fswitch_int"}

\* t_int values of the grid: 0.1 s and 0.5 s .. MaxTIntHalves / 2 s
TIntVals == {<<1, 10>>} \cup {<<k, 2>> : k \in 1..MaxTIntHalves}

\* the power of one block, as seen by the accumulators (the long runs at
\* fswitch = 5 Hz below are fed blocks of power 1 only)
PowerVals == 1..MaxPower

Unset == [set |-> FALSE, num |-> 0, den |-> 0]

\* numpy array / integer: never raises; a zero divisor yields NaN or Inf
\* entries (den = 0 below) with only a RuntimeWarning
Avg(sum, count) == [set |-> TRUE, num |-> sum, den |-> count]

\* int(sdr.rs * t_int)
TotalSamples(r, t) == (r * t[1]) \div t[2]

\* int(sdr.rs * (1.0 / fswitch))
DwellSamples(r, fs) == r \div fs

\* the assert of run_fswitch_int: t_int >= 2.0 * (1.0 / fswitch)
InputsOK_mut(t, fs) == t[1] * fs >= t[2]

InputsOK(t, fs) == t[1] * fs >= 2 * t[2]

\* num_loops = N_dwell // num_samp
LoopsPerDwell_mut(nd, ns) == nd \div ns + 1

LoopsPerDwell(nd, ns) == nd \div ns

\* num_dwells = N // N_dwell
NumDwells(n, nd) == n \div nd

\* tick = (i % 2 == 0)
Tick_mut(k) == TRUE

Tick(k) == k % 2 = 0

\* the branch on tick that adds p_xx to p_xx_on
AddOn_mut(t, acc, p) == acc + p

AddOn(t, acc, p) == IF t THEN acc + p ELSE acc

\* the branch on tick that adds p_xx to p_xx_off
AddOff(t, acc, p) == IF t THEN acc ELSE acc + p

\* nperseg of run_spectrum_int
Nperseg(nb) == IF nb < 256 THEN nb ELSE 256

\* welch() rejects a segment length below 1 with ValueError
WelchOK(nperseg) == nperseg >= 1

\* ---- initial states -----------------------------------------------------
InitRun ==
    /\ device = "none" /\ log = <<>> /\ err = "none"
    /\ N = 0 /\ N_dwell = 0 /\ num_loops = 0 /\ num_dwells = 0
    /\ i = 0 /\ j = 0 /\ tick = TRUE /\ it = 0 /\ calls = 0 /\ cnt = 0
    /\ p_tot = 0 /\ p_xx_tot = 0 /\ p_xx_on = 0 /\ p_xx_off = 0
    /\ n_tot = 0 /\ n_on = 0 /\ n_off = 0
    /\ p_avg = Unset /\ p_avg_on = Unset /\ p_avg_off = Unset
    /\ pc = IF fn = "run_fswitch_int" THEN "check" ELSE "open"

\* a small grid of arguments for the three routines
InitGrid ==
    /\ fn \in Routines
    /\ num_samp \in 0..MaxNumSamp
    /\ nbins \in IF fn = "run_total_power_int" THEN {1} ELSE 0..MaxNBins
    /\ rate \in 1..MaxRate
    /\ t_int \in TIntVals
    /\ fswitch \in IF fn = "run_fswitch_int" THEN 1..MaxFswitch ELSE {10}
    /\ sky = PowerVals
    /\ InitRun

\* run_fswitch_int at fswitch = 5 Hz, t_int = 4 s, num_samp dividing the
\* dwell length
InitSwitch5 ==
    /\ fn = "run_fswitch_int"
    /\ fswitch = 5
    /\ t_int = <<4, 1>>
    /\ rate \in 5..MaxRate5
    /\ nbins = 1
    /\ sky = {1}
    /\ num_samp \in {ns \in 1..(rate \div 5) :
                        /\ (rate \div 5) % ns = 0
                        /\ (rate \div 5) \div ns <= MaxLoops5}
    /\ InitRun

Init == InitGrid \/ InitSwitch5

\* ---- exception handling -------------------------------------------------
\* an exception raised inside the try block: control goes to the except
\* clauses (which re-raise) and then to the finally block
Raise(e) == /\ err' = e
            /\ pc' = "finally"

\* ---- steps common to the three routines ---------------------------------
\* run_fswitch_int: the input check before the device is created
CheckInputs ==
    /\ pc = "check"
    /\ IF InputsOK(t_int, fswitch)
          THEN pc' = "open" /\ err' = err
          ELSE pc' = "raised" /\ err' = "AssertionError"
    /\ UNCHANGED <<args, device, log, locals, i, j, tick, it, calls, cnt,
                   sums, avgs>>

\* sdr = RtlSdr(), outside the try block
Open ==
    /\ pc = "open"
    /\ \E ok \in BOOLEAN :
          IF ok THEN /\ device' = "open"
                     /\ log' = Append(log, "open")
                     /\ pc' = "config"
                     /\ err' = err
                ELSE /\ pc' = "raised"
                     /\ err' = "HardwareIO"
                     /\ UNCHANGED <<device, log>>
    /\ UNCHANGED <<args, locals, i, j, tick, it, calls, cnt, sums, avgs>>

\* sdr.rs = rate; sdr.fc = fc; sdr.gain = gain.  Each setter may fail.
ConfigCalls == <<"rs", "fc", "gain">>

\* the same calls, failing
ConfigFails == <<"rs!", "fc!", "gain!">>

Configure ==
    /\ pc = "config"
    /\ \E failAt \in 0..3 :
          IF failAt = 0
             THEN /\ log' = log \o ConfigCalls
                  /\ pc' = "setup"
                  /\ err' = err
             ELSE /\ log' = log \o SubSeq(ConfigCalls, 1, failAt - 1)
                              \o <<ConfigFails[failAt]>>
                  /\ Raise("HardwareIO")
    /\ UNCHANGED <<args, device, locals, i, j, tick, it, calls, cnt, sums,
                   avgs>>

\* the finally block: sdr.close(); then return, or the exception propagates
Finally_mut ==
    /\ pc = "finally"
    /\ pc' = IF err = "none" THEN "returned" ELSE "raised"
    /\ UNCHANGED <<args, device, log, err, locals, i, j, tick, it, calls,
                   cnt, sums, avgs>>

Finally ==
    /\ pc = "finally"
    /\ device' = "closed"
    /\ log' = Append(log, "close")
    /\ pc' = IF err = "none" THEN "returned" ELSE "raised"
    /\ UNCHANGED <<args, err, locals, i, j, tick, it, calls, cnt, sums,
                   avgs>>

\* ---- run_total_power_int ------------------------------------------------
\* N = int(sdr.rs * t_int); the estimate int(N / num_samp); p_tot = 0.0;
\* cnt = 0
SetupTotalPower ==
    /\ pc = "setup" /\ fn = "run_total_power_int"
    /\ N' = TotalSamples(rate, t_int)
    /\ IF num_samp = 0
          THEN Raise("ZeroDivisionError")
          ELSE pc' = "async" /\ err' = err
    /\ UNCHANGED <<args, device, log, N_dwell, num_loops, num_dwells, i, j,
                   tick, it, calls, cnt, sums, avgs>>

\* sdr.read_samples_async(p_tot_callback, num_samples=num_samp)
ReadSamplesAsync ==
    /\ pc = "async"
    /\ \E ok \in BOOLEAN :
          IF ok THEN /\ log' = Append(log, "read_async")
                     /\ pc' = "callback"
                     /\ err' = err
                ELSE /\ log' = Append(log, "read_async!")
                     /\ Raise("HardwareIO")
    /\ UNCHANGED <<args, device, locals, i, j, tick, it, calls, cnt, sums,
                   avgs>>

\* one buffer delivered to the limit_calls(N / num_samp) wrapper of
\* p_tot_callback: past the budget it cancels the read, else it accumulates
p_tot_callback ==
    /\ pc = "callback"
    /\ \E ok \in BOOLEAN, p \in sky :
          IF ~ok
             THEN /\ log' = Append(log, "block!")
                  /\ Raise("HardwareIO")
                  /\ UNCHANGED <<calls, cnt, p_tot, n_tot>>
             ELSE /\ log' = Append(log, "block")
                  /\ calls' = calls + 1
                  /\ err' = err
                  /\ IF (calls + 1) * num_samp > N
                        THEN /\ pc' = "finalize"
                             /\ UNCHANGED <<cnt, p_tot, n_tot>>
                        ELSE /\ pc' = pc
                             /\ p_tot' = p_tot + p
                             /\ n_tot' = n_tot + 1
                             /\ cnt' = cnt + 1
    /\ UNCHANGED <<args, device, locals, i, j, tick, it, p_xx_tot, p_xx_on,
                   p_xx_off, n_on, n_off, avgs>>

\* p_avg = p_tot / (num_samp * cnt), a division of Python floats, which
\* raises on a zero divisor; then sdr.close()
FinalizeTotalPower ==
    /\ pc = "finalize" /\ fn = "run_total_power_int"
    /\ IF num_samp * cnt = 0
          THEN /\ Raise("ZeroDivisionError")
               /\ UNCHANGED <<device, log, p_avg>>
          ELSE /\ p_avg' = Avg(p_tot, num_samp * cnt)
               /\ device' = "closed"
               /\ log' = Append(log, "close")
               /\ pc' = "finally"
               /\ err' = err
    /\ UNCHANGED <<args, locals, i, j, tick, it, calls, cnt, sums, p_avg_on,
                   p_avg_off>>

\* ---- run_spectrum_int ---------------------------------------------------
\* N = int(sdr.rs * t_int); num_loops = int(N / num_samp) + 1; cnt = 0
SetupSpectrum ==
    /\ pc = "setup" /\ fn = "run_spectrum_int"
    /\ N' = TotalSamples(rate, t_int)
    /\ IF num_samp = 0
          THEN /\ Raise("ZeroDivisionError")
               /\ UNCHANGED <<num_loops, cnt, it>>
          ELSE /\ num_loops' = TotalSamples(rate, t_int) \div num_samp + 1
               /\ cnt' = 0
               /\ it' = 0
               /\ pc' = "loop"
               /\ err' = err
    /\ UNCHANGED <<args, device, log, N_dwell, num_dwells, i, j, tick,
                   calls, sums, avgs>>

\* one pass of "for cnt in range(num_loops)": read a block, take its
\* periodogram, add it to p_xx_tot
SpectrumRead ==
    /\ pc = "loop" /\ it < num_loops
    /\ cnt' = it
    /\ it' = it + 1
    /\ \E ok \in BOOLEAN, p \in sky :
          IF ~ok
             THEN /\ log' = Append(log, "read!")
                  /\ Raise("HardwareIO")
                  /\ UNCHANGED <<p_xx_tot, n_tot>>
             ELSE /\ log' = Append(log, "read")
                  /\ IF WelchOK(Nperseg(nbins))
                        THEN /\ p_xx_tot' = p_xx_tot + p
                             /\ n_tot' = n_tot + 1
                             /\ UNCHANGED <<pc, err>>
                        ELSE /\ Raise("ValueError")
                             /\ UNCHANGED <<p_xx_tot, n_tot>>
    /\ UNCHANGED <<args, device, locals, i, j, tick, calls, p_tot, p_xx_on,
                   p_xx_off, n_on, n_off, avgs>>

\* after the loop: p_avg = p_xx_tot / cnt (numpy), the PSD conversion, then
\* sdr.close()
SpectrumFinalize ==
    /\ pc = "loop" /\ it >= num_loops
    /\ p_avg' = Avg(p_xx_tot, cnt)
    /\ device' = "closed"
    /\ log' = Append(log, "close")
    /\ pc' = "finally"
    /\ UNCHANGED <<args, err, locals, i, j, tick, it, calls, cnt, sums,
                   p_avg_on, p_avg_off>>

\* ---- run_fswitch_int ----------------------------------------------------
\* N, N_dwell, num_loops = N_dwell // num_samp, num_dwells = N // N_dwell,
\* cnt = 0
SetupFswitch ==
    /\ pc = "setup" /\ fn = "run_fswitch_int"
    /\ N' = TotalSamples(rate, t_int)
    /\ N_dwell' = DwellSamples(rate, fswitch)
    /\ IF num_samp = 0 \/ DwellSamples(rate, fswitch) = 0
          THEN /\ Raise("ZeroDivisionError")
               /\ UNCHANGED <<num_loops, num_dwells, cnt, i>>
          ELSE /\ num_loops' = LoopsPerDwell(DwellSamples(rate, fswitch),
                                             num_samp)
               /\ num_dwells' = NumDwells(TotalSamples(rate, t_int),
                                          DwellSamples(rate, fswitch))
               /\ cnt' = 0
               /\ i' = 0
               /\ pc' = "dwell"
               /\ err' = err
    /\ UNCHANGED <<args, device, log, j, tick, it, calls, sums, avgs>>

\* head of "for i in range(num_dwells)": set tick and retune
DwellStart ==
    /\ pc = "dwell" /\ i < num_dwells
    /\ tick' = Tick(i)
    /\ j' = 0
    /\ \E ok \in BOOLEAN :
          IF ok THEN /\ log' = Append(log, IF Tick(i) THEN "fc" ELSE "fthrow")
                     /\ pc' = "read"
                     /\ err' = err
                ELSE /\ log' = Append(log, "fc!")
                     /\ Raise("HardwareIO")
    /\ UNCHANGED <<args, device, locals, i, it, calls, cnt, sums, avgs>>

\* one pass of "for j in range(num_loops)": read a block, take its
\* periodogram, add it to the sum tick selects, count it
DwellRead ==
    /\ pc = "read" /\ j < num_loops
    /\ \E ok \in BOOLEAN, p \in sky :
          IF ~ok
             THEN /\ log' = Append(log, "read!")
                  /\ Raise("HardwareIO")
                  /\ UNCHANGED <<j, cnt, p_xx_on, p_xx_off, n_on, n_off>>
             ELSE /\ log' = Append(log, "read")
                  /\ IF WelchOK(nbins)
                        THEN /\ p_xx_on' = AddOn(tick, p_xx_on, p)
                             /\ p_xx_off' = AddOff(tick, p_xx_off, p)
                             /\ n_on' = AddOn(tick, n_on, 1)
                             /\ n_off' = AddOff(tick, n_off, 1)
                             /\ cnt' = cnt + 1
                             /\ j' = j + 1
                             /\ UNCHANGED <<pc, err>>
                        ELSE /\ Raise("ValueError")
                             /\ UNCHANGED <<j, cnt, p_xx_on, p_xx_off, n_on,
                                            n_off>>
    /\ UNCHANGED <<args, device, locals, i, tick, it, calls, p_tot,
                   p_xx_tot, n_tot, avgs>>

\* the inner loop is exhausted: next dwell
DwellEnd ==
    /\ pc = "read" /\ j >= num_loops
    /\ i' = i + 1
    /\ pc' = "dwell"
    /\ UNCHANGED <<args, device, log, err, locals, j, tick, it, calls, cnt,
                   sums, avgs>>

\* after the loops: p_avg_on = p_xx_on / cnt, p_avg_off = p_xx_off / cnt
\* (numpy), f_throw_fold (which may raise), then sdr.close()
FswitchFinalize ==
    /\ pc = "dwell" /\ i >= num_dwells
    /\ p_avg_on' = Avg(p_xx_on, cnt)
    /\ p_avg_off' = Avg(p_xx_off, cnt)
    /\ \E ok \in BOOLEAN :
          IF ok THEN /\ device' = "closed"
                     /\ log' = Append(log, "close")
                     /\ pc' = "finally"
                     /\ err' = err
                ELSE /\ Raise("FoldError")
                     /\ UNCHANGED <<device, log>>
    /\ UNCHANGED <<args, locals, i, j, tick, it, calls, cnt, sums, p_avg>>

\* ---- specification ------------------------------------------------------
Next ==
    \/ CheckInputs
    \/ Open
    \/ Configure
    \/ SetupTotalPower
    \/ ReadSamplesAsync
    \/ p_tot_callback
    \/ FinalizeTotalPower
    \/ SetupSpectrum
    \/ SpectrumRead
    \/ SpectrumFinalize
    \/ SetupFswitch
    \/ DwellStart
    \/ DwellRead
    \/ DwellEnd
    \/ FswitchFinalize
    \/ Finally

Spec == Init /\ [][Next]_vars

TypeOK ==
    /\ pc \in {"check", "open", "config", "setup", "async", "callback",
               "loop", "dwell", "read", "finalize", "finally", "returned",
               "raised"}
    /\ device \in {"none", "open", "closed"}
    /\ err \in {"none", "AssertionError", "HardwareIO", "ZeroDivisionError",
                "ValueError", "FoldError"}

\* ---- reading the call log -----------------------------------------------
IsPrefix(s, t) == /\ Len(s) <= Len(t)
                  /\ \A k \in 1..Len(s) : s[k] = t[k]

\* the frequency the source is tuned to after the first k calls of l
RECURSIVE TunedAfter(_, _)
TunedAfter(l, k) ==
    IF k = 0 THEN "none"
    ELSE IF l[k] \in {"fc", "fthrow"} THEN l[k]
    ELSE TunedAfter(l, k - 1)

\* the block reads of l made while tuned to f
ReadsAt(l, f) ==
    Cardinality({k \in 1..Len(l) : l[k] = "read" /\ TunedAfter(l, k) = f})

\* nl block reads
RECURSIVE Reads(_)
Reads(nl) == IF nl <= 0 THEN <<>> ELSE <<"read">> \o Reads(nl - 1)

\* dwells k .. nd-1: even dwells retune to fc, odd ones to fthrow, each
\* followed by nl block reads
RECURSIVE Dwells(_, _, _)
Dwells(k, nd, nl) ==
    IF k >= nd THEN <<>>
    ELSE <<IF k % 2 = 0 THEN "fc" ELSE "fthrow">> \o Reads(nl)
         \o Dwells(k + 1, nd, nl)

FailEvents == {"rs!", "fc!", "gain!", "read!", "read_async!", "block!"}

Ended == pc \in {"returned", "raised"}

Abs(x) == IF x < 0 THEN -x ELSE x

\* ---- properties ---------------------------------------------------------

\* C1: in run_fswitch_int, when t_int < 2 / fswitch the call fails with the
\* input check's error and the sample source is never touched: no device is
\* opened, nothing is configured, no block is read.
C1_RejectedBeforeSource ==
    (fn = "run_fswitch_int" /\ t_int[1] * fswitch < 2 * t_int[2])
       => /\ log = <<>>
          /\ device = "none"
          /\ pc \in {"check", "raised"}
          /\ pc = "raised" => err = "AssertionError"

C1_Witness ==
    /\ fn = "run_fswitch_int" /\ t_int = <<1, 10>> /\ fswitch = 1
    /\ pc = "raised" /\ err = "AssertionError"

\* C2: in run_fswitch_int the calls on the source are: the configuration,
\* then for each dwell k = 0, 1, .. one retune (to fc for even k, to fthrow
\* for odd k) followed by exactly floor(floor(rate / fswitch) / num_samp)
\* block reads, for exactly floor(floor(rate * t_int) / floor(rate /
\* fswitch)) dwells; a run that has not failed is always a prefix of that
\* sequence, and a run that returns has made all of it.
C2_Schedule ==
    (fn = "run_fswitch_int" /\ pc \in {"dwell", "read", "returned"}
        /\ err = "none")
       => LET nl == (rate \div fswitch) \div num_samp
              nd == ((rate * t_int[1]) \div t_int[2]) \div (rate \div fswitch)
              want == <<"open", "rs", "fc", "gain">> \o Dwells(0, nd, nl)
          IN  IF pc = "returned"
                 THEN log = want \o <<"close", "close">>
                 ELSE IsPrefix(log, want)

C2_Witness ==
    /\ fn = "run_fswitch_int" /\ pc = "returned"
    /\ ReadsAt(log, "fc") >= 4 /\ ReadsAt(log, "fthrow") >= 4
    /\ num_dwells >= 4 /\ num_loops >= 2

\* C3: in run_fswitch_int a block read while tuned to fc is added to the
\* 'on' sum and leaves the 'off' sum alone, a block read while tuned to
\* fthrow is added to the 'off' sum and leaves the 'on' sum alone, and the
\* sums change in no other step.
C3_Routing ==
    [][ /\ (fn = "run_fswitch_int" /\ log' = Append(log, "read")
               /\ err' = "none")
           => IF TunedAfter(log, Len(log)) = "fc"
                 THEN /\ p_xx_on' - p_xx_on \in PowerVals
                      /\ n_on' = n_on + 1
                      /\ p_xx_off' = p_xx_off /\ n_off' = n_off
                 ELSE /\ TunedAfter(log, Len(log)) = "fthrow"
                      /\ p_xx_off' - p_xx_off \in PowerVals
                      /\ n_off' = n_off + 1
                      /\ p_xx_on' = p_xx_on /\ n_on' = n_on
        /\ (p_xx_on' # p_xx_on \/ p_xx_off' # p_xx_off)
           => log' = Append(log, "read") ]_vars

C3_Witness ==
    /\ fn = "run_fswitch_int"
    /\ n_on >= 2 /\ n_off >= 2
    /\ p_xx_on > n_on /\ p_xx_off > n_off

\* C4: in run_fswitch_int each average is its sum divided by the number of
\* periodograms added to that sum.
C4_DivisorPerAccumulator ==
    (fn = "run_fswitch_int" /\ p_avg_on.set /\ p_avg_off.set)
       => /\ p_avg_on = Avg(p_xx_on, n_on)
          /\ p_avg_off = Avg(p_xx_off, n_off)

\* C5: in run_spectrum_int the average is the running sum divided by the
\* number of periodograms added to it.
C5_SpectrumDivisor ==
    (fn = "run_spectrum_int" /\ p_avg.set) => p_avg = Avg(p_xx_tot, n_tot)

\* C6: a run whose averaging divisor is zero ends in an error and returns
\* nothing.
C6_ZeroDivisorRaises ==
    \A a \in {p_avg, p_avg_on, p_avg_off} :
       (a.set /\ a.den = 0) => (pc \in {"finally", "raised"} /\ err # "none")

\* C7: in run_fswitch_int, for positive arguments with t_int >= 2 / fswitch,
\* both sums have received a block when the spectra are averaged.
C7_BothSumsFed ==
    (fn = "run_fswitch_int" /\ t_int[1] * fswitch >= 2 * t_int[2]
        /\ num_samp > 0 /\ rate > 0 /\ fswitch > 0 /\ nbins > 0
        /\ p_avg_on.set)
       => (n_on >= 1 /\ n_off >= 1)

C9_ReleasedAndPropagated ==
    /\ (Ended /\ device # "none") => device = "closed"
    /\ \A k \in 1..Len(log) :
          log[k] \in FailEvents
             => /\ \A m \in (k + 1)..Len(log) : log[m] = "close"
                /\ err = "HardwareIO"
                /\ pc \in {"finally", "raised"}

C9_Witness ==
    /\ pc = "raised" /\ err = "HardwareIO" /\ device = "closed"
    /\ \E k \in 1..Len(log) : log[k] = "read!" /\ k > 5

\* C10: a non-positive num_samp or nbins is rejected before the device is
\* opened, configured or read.
C10_RejectedBeforeSource ==
    (num_samp <= 0 \/ nbins <= 0) => (log = <<>> /\ device = "none")

====
